---------------------------- MODULE Spec2Model ----------------------------
(***************************************************************************)
(* Model of the calendar reconciliation service of src/main.py:            *)
(* CalendarEvent (identity, content hash, content key, validation),        *)
(* CalendarSyncService.read_sheet_events, get_existing_calendar_events,    *)
(* create_event_with_retry, sync_events, delete_events_in_range and        *)
(* reset_sync_data, against a calendar service whose answers (success,     *)
(* failure, cancelled) are chosen nondeterministically.                    *)
(*                                                                         *)
(* Strings the code inspects are sequences of one-character strings, so    *)
(* that strip() and lower() are computed.  A datetime is a number of       *)
(* seconds; its isoformat() is a record [t, tz] whose tz is the UTC-offset *)
(* suffix of the text ("" for the naive datetimes the parser produces).    *)
(* An f-string that joins fields with a separator is the tuple of its      *)
(* fields, and sha256 of such a text is that tuple (no collisions).        *)
(***************************************************************************)
EXTENDS Integers, Sequences, FiniteSets, TLC

VARIABLES
    calendar,        \* the calendar service: entry id -> entry
    db,              \* table synced_events of the open connection
    durable,         \* table synced_events as of the last conn.commit()
    blob,            \* the database file as last uploaded to the bucket
    bucket,          \* self.bucket of the running sync_events is set
    sync_log,        \* table sync_log
    failed_log,      \* table failed_events
    validation_log,  \* table validation_errors
    duplicate_log,   \* table duplicate_events
    pc,              \* "idle", or "loop" while sync_events iterates
    values,          \* sync_events: the data rows read from the sheet
    sheet_events,    \* sync_events: the valid events being reconciled
    invalid_events,  \* sync_events: the invalid-row reports
    duplicate_tracking, \* sync_events: occurrences per Event ID
    existing,        \* sync_events: existing_calendar_events, key -> entry id
    idx,             \* sync_events: position of the next event (1-based)
    created, updated, skipped, errors,  \* sync_events: the counters
    failed_events,   \* sync_events: the list failed_events
    result,          \* what the last finished operation returned
    last,            \* history: what the last loop iteration did, with the
                     \* state before it and the state after it
    atStart,         \* history: the calendar and the table when this run started,
                     \* and whether its listing call was answered
    call,            \* history: the last operation that returned
    pending,         \* history: creates of this run since the last conn.commit()
    unsaved,         \* history: events of this run that changed synced_events
                     \* since the last upload
    runs,            \* history: the last two sync_events runs that ran the loop
    runClean,        \* history: no service failure or out-of-band change so far in this run
    idleClean,       \* history: nothing happened since the last run returned
    steps,           \* history: operations started, service failures and
                     \* out-of-band changes so far
    overlap          \* two service instances that run sync_events at a time

vars == <<calendar, db, durable, blob, bucket, sync_log, failed_log,
          validation_log, duplicate_log, pc, values, sheet_events,
          invalid_events, duplicate_tracking, existing, idx, created, updated,
          skipped, errors, failed_events, result, last, atStart, call, pending,
          unsaved, runs, runClean, idleClean, steps, overlap>>

-----------------------------------------------------------------------------
(* Bounds of the exploration *)

\* Operations started, failing service answers and out-of-band changes in one
\* behaviour
MaxSteps == 3

(* Program constants *)

MAX_RETRIES == 3
BATCH_SIZE == 10
DAY == 86400
DAYS_BEFORE == 7
DAYS_AFTER == 14

-----------------------------------------------------------------------------
(* Text *)

IsSpace(c) == c = " "

LowerChar(c) == CASE c = "A" -> "a" [] c = "B" -> "b" [] OTHER -> c

Lower(s) == [i \in 1..Len(s) |-> LowerChar(s[i])]

RECURSIVE LStrip(_)
LStrip(s) == IF s /= <<>> /\ IsSpace(Head(s)) THEN LStrip(Tail(s)) ELSE s

RECURSIVE RStrip(_)
RStrip(s) == IF s /= <<>> /\ IsSpace(s[Len(s)])
             THEN RStrip(SubSeq(s, 1, Len(s) - 1)) ELSE s

Strip(s) == RStrip(LStrip(s))

Iso(t) == [t |-> t, tz |-> ""]


-----------------------------------------------------------------------------
(* CalendarEvent *)

\* A unique_id that leaves the start time out
UniqueIdOfSheetId(sheet_id, start_time) == <<sheet_id, Iso(0)>>

\* unique_id: f"{sheet_id}_{start_time.isoformat()}"
UniqueId(sheet_id, start_time) == <<sheet_id, Iso(start_time)>>

\* The dataclass as read_sheet_events constructs it; __post_init__ sets unique_id.
CalendarEvent(sheet_id, name, start_time, end_time, description, event_type, color, row_number) ==
    [sheet_id |-> sheet_id, name |-> name, start_time |-> start_time,
     end_time |-> end_time, description |-> description,
     event_type |-> event_type, color |-> color, row_number |-> row_number,
     unique_id |-> UniqueId(sheet_id, start_time)]

\* A validation that lets an event end when it starts
ValidationErrorsLax(e) ==
    (IF e.name = <<>> \/ Strip(e.name) = <<>> THEN <<"Event name is empty">> ELSE <<>>)
    \o (IF e.end_time < e.start_time THEN <<"End time must be after start time">> ELSE <<>>)

\* is_valid, as the list of reasons it leaves in validation_errors
ValidationErrors(e) ==
    (IF e.name = <<>> \/ Strip(e.name) = <<>> THEN <<"Event name is empty">> ELSE <<>>)
    \o (IF e.end_time <= e.start_time THEN <<"End time must be after start time">> ELSE <<>>)
\* A validation that passes every event
IsValidAlways(e) == TRUE

IsValid(e) == Len(ValidationErrors(e)) = 0

\* A content hash of the name as typed
ContentHashRaw(e) == <<e.name, Iso(e.start_time), Iso(e.end_time)>>

\* content_hash: sha256 of "name.strip().lower()|start|end"
ContentHash(e) == <<Lower(Strip(e.name)), Iso(e.start_time), Iso(e.end_time)>>

\* content_key: "name.strip().lower()|start"
ContentKey(e) == <<Lower(Strip(e.name)), Iso(e.start_time)>>

\* to_google_event: the description with tags removed and entities decoded
CleanDesc(d) ==
    CASE d = "<b>y</b>" -> "y"
      [] d = "x &amp; y" -> "x & y"
      [] OTHER -> d

\* to_google_event: event_type.upper().replace(' ', '_')
NormType(t) ==
    CASE t = "focus time" -> "FOCUS_TIME"
      [] t = "default" -> "DEFAULT"
      [] OTHER -> t

\* to_google_event: the colorId, "" when none is set
ColorId(e) ==
    LET t == IF e.event_type = "" THEN "DEFAULT" ELSE NormType(e.event_type)
    IN  CASE t = "DEFAULT" -> "1"
          [] t = "FOCUS_TIME" -> "2"
          [] t = "OUT_OF_OFFICE" -> "4"
          [] t = "WORKING_LOCATION" -> "5"
          [] OTHER -> IF e.color \in {"1", "2", "3", "4", "5", "6", "7", "8", "9", "10", "11"}
                      THEN e.color ELSE ""

ToGoogleEvent(e) ==
    [summary |-> Strip(e.name), start |-> Iso(e.start_time),
     end |-> Iso(e.end_time), description |-> CleanDesc(e.description),
     colorId |-> ColorId(e)]

-----------------------------------------------------------------------------
(* The sheet: rows of cells.  A date cell is the datetime the parser yields, *)
(* or NoTime for a cell DateTimeParser.parse rejects.                        *)

NoTime == -1

Row(id, name, start, end, desc, type, color) ==
    [id |-> id, name |-> name, start |-> start, end |-> end,
     desc |-> desc, type |-> type, color |-> color]

NameA == <<"A">>
NameA2 == <<" ", "a">>
NameB == <<"B">>
NameBlank == <<" ">>

R1 == Row("E1", NameA, 1, 2, "x", "DEFAULT", "")
R2 == Row("E1", NameA2, 1, 2, "<b>y</b>", "focus time", "5")
R3 == Row("E1", NameB, 1, 2, "x", "DEFAULT", "")
R4 == Row("E1", NameA, 1, 3, "x", "DEFAULT", "")
R5 == Row("E1", NameA, 2, 3, "x", "DEFAULT", "")
R6 == Row("E2", NameA, 1, 2, "x", "custom", "12")
R7 == Row("E1", NameA, 2, 2, "x", "DEFAULT", "")
R8 == Row("", NameA, 1, 2, "x", "DEFAULT", "")
R9 == Row("E2", NameBlank, 1, 2, "x", "DEFAULT", "")
R10 == Row("E2", NameB, NoTime, 2, "x", "DEFAULT", "")
R11 == Row("E2", NameB, 3, 2, "x", "DEFAULT", "")

\* One row more than a batch: the same Event ID at BATCH_SIZE + 1 starts
LongSheet == [i \in 1..(BATCH_SIZE + 1) |-> Row("E3", NameA, 10 + i, 11 + i, "x", "DEFAULT", "")]

Sheets ==
    { <<>>, <<R1>>, <<R2>>, <<R7, R3>>, <<R4>>, <<R5>>, <<R7, R8, R9, R10, R11>>,
      <<R1, R5>>, <<R1, R3>>, <<R1, R6>>, LongSheet }

-----------------------------------------------------------------------------
(* read_sheet_events *)

\* The event built for data row i (sheet row i + 1: row 1 is the header)
RowEvent(sheet, i) ==
    LET r == sheet[i]
    IN  CalendarEvent(r.id, r.name, r.start, r.end, r.desc, r.type, r.color, i + 1)

\* What a row is: "noid", "baddate", "invalid" or "valid"
RowClass(sheet, i) ==
    LET r == sheet[i]
    IN  IF r.id = "" THEN "noid"
        ELSE IF r.start = NoTime \/ r.end = NoTime THEN "baddate"
        ELSE IF IsValid(RowEvent(sheet, i)) THEN "valid" ELSE "invalid"

RECURSIVE ValidEvents(_, _)
ValidEvents(sheet, i) ==
    IF i > Len(sheet) THEN <<>>
    ELSE (IF RowClass(sheet, i) = "valid" THEN <<RowEvent(sheet, i)>> ELSE <<>>)
         \o ValidEvents(sheet, i + 1)

InvalidReport(sheet, i) ==
    LET c == RowClass(sheet, i)
    IN  [row |-> i + 1, name |-> sheet[i].name,
         error |-> CASE c = "noid" -> <<"Missing Event ID">>
                     [] c = "baddate" ->
                          (IF sheet[i].start = NoTime THEN <<"Invalid start date">> ELSE <<>>)
                          \o (IF sheet[i].end = NoTime THEN <<"Invalid end date">> ELSE <<>>)
                     [] OTHER -> ValidationErrors(RowEvent(sheet, i))]

RECURSIVE InvalidEvents(_, _)
InvalidEvents(sheet, i) ==
    IF i > Len(sheet) THEN <<>>
    ELSE (IF RowClass(sheet, i) /= "valid" THEN <<InvalidReport(sheet, i)>> ELSE <<>>)
         \o InvalidEvents(sheet, i + 1)

\* duplicate_tracking: every row that has an Event ID counts, valid or not
DuplicateTracking(sheet) ==
    LET ids == {sheet[i].id : i \in 1..Len(sheet)} \ {""}
    IN  [k \in ids |-> Cardinality({i \in 1..Len(sheet) : sheet[i].id = k})]

SetMin(S) == CHOOSE x \in S : \A y \in S : x <= y
SetMax(S) == CHOOSE x \in S : \A y \in S : x >= y

\* The rows read_sheet_events inserts into duplicate_events, in the order of
\* the dict: the first occurrence of each Event ID
RECURSIVE DuplicateRows(_, _)
DuplicateRows(sheet, i) ==
    IF i > Len(sheet) THEN <<>>
    ELSE LET k == sheet[i].id
             track == DuplicateTracking(sheet)
             withId == SelectSeq(ValidEvents(sheet, 1), LAMBDA e : e.sheet_id = k)
             starts == {withId[j].start_time : j \in 1..Len(withId)}
             first == k /= "" /\ \A j \in 1..(i - 1) : sheet[j].id /= k
         IN  (IF first /\ track[k] > 1 /\ Len(withId) > 0
              THEN << [sheet_event_id |-> k, occurrences |-> track[k],
                       event_name |-> withId[1].name,
                       first_occurrence |-> Iso(SetMin(starts)),
                       last_occurrence |-> Iso(SetMax(starts))] >>
              ELSE <<>>)
             \o DuplicateRows(sheet, i + 1)

\* duplicate_count of sync_events
DuplicateCount(track) == Cardinality({k \in DOMAIN track : track[k] > 1})

-----------------------------------------------------------------------------
(* The calendar service.  An entry's id is its position in the sequence.    *)
(* status is "confirmed", "cancelled" (deleted, still returned by get) or   *)
(* "gone" (get answers not-found).                                          *)

Entry(status, summary, start, end, description, colorId) ==
    [status |-> status, summary |-> summary, start |-> start, end |-> end,
     description |-> description, colorId |-> colorId]

\* events().insert / events().update: the entry the service keeps for a payload
EntryOf(body) ==
    Entry("confirmed", body.summary, body.start, body.end, body.description, body.colorId)

\* An update that deletes the entry and inserts the new content
UpdateByReplacing(cal, cal_id, body) ==
    Append([cal EXCEPT ![cal_id].status = "gone"], EntryOf(body))

\* Lines 641-645: events().update(eventId=cal_id, body) changes the entry in place
UpdateInPlace(cal, cal_id, body) == [cal EXCEPT ![cal_id] = EntryOf(body)]

\* Entries a person made in the calendar before the service ever ran
ManualA == Entry("confirmed", <<"a">>, Iso(1), Iso(2), "", "")
ManualZ == Entry("confirmed", <<"A">>, [t |-> 1, tz |-> "Z"], [t |-> 2, tz |-> "Z"], "", "")

InitCalendars == { <<>>, <<ManualZ, ManualA>> }

-----------------------------------------------------------------------------
(* get_existing_calendar_events *)

\* datetime.fromisoformat(start.replace('Z', '+00:00')).isoformat()
NormalizeStart(start) == IF start.tz = "Z" THEN [start EXCEPT !.tz = "+00:00"] ELSE start

\* The content key of a listed entry
EntryKey(entry) == <<Lower(Strip(entry.summary)), NormalizeStart(entry.start)>>

\* events().list(timeMin, timeMax): the ids of the entries in the window
Listed(cal, time_min, time_max) ==
    {id \in 1..Len(cal) : cal[id].status /= "gone"
                          /\ cal[id].end.t > time_min /\ cal[id].start.t < time_max}

\* An index that keeps the cancelled entries
IndexedAll(cal, time_min, time_max) ==
    {id \in Listed(cal, time_min, time_max) : Strip(cal[id].summary) /= <<>>}

\* The entries the loop indexes: not cancelled, with a summary and a start
Indexed(cal, time_min, time_max) ==
    {id \in Listed(cal, time_min, time_max) :
        cal[id].status /= "cancelled" /\ Strip(cal[id].summary) /= <<>>}

\* Every index the loop can build: on a duplicate key the entry listed last
\* wins, and the order of entries with the same start is the service's.
EmptySnapshot == [k \in {} |-> 0]

RECURSIVE SnapshotsOver(_, _, _)
SnapshotsOver(cal, ids, keys) ==
    IF keys = {} THEN {EmptySnapshot}
    ELSE LET k == CHOOSE x \in keys : TRUE
             holders == {id \in ids : EntryKey(cal[id]) = k}
         IN  {[x \in DOMAIN f \cup {k} |-> IF x = k THEN id ELSE f[x]] :
                  f \in SnapshotsOver(cal, ids, keys \ {k}), id \in holders}

Snapshots(cal, time_min, time_max) ==
    LET ids == Indexed(cal, time_min, time_max)
    IN  SnapshotsOver(cal, ids, {EntryKey(cal[id]) : id \in ids})

\* A listing whose failure is not caught as an empty index: the index of an
\* earlier listing is used
GetExistingCalendarEventsCached(cal, time_min, time_max, listAns) ==
    Snapshots(cal, time_min, time_max)

\* Lines 501-545: the index of the listed entries, or {} when the listing
\* call raises (lines 543-545)
GetExistingCalendarEvents(cal, time_min, time_max, listAns) ==
    IF listAns = "ok" THEN Snapshots(cal, time_min, time_max) ELSE {EmptySnapshot}

\* The window sync_events asks for
TimeMin(events) ==
    SetMin({events[i].start_time : i \in 1..Len(events)}
           \cup {events[i].end_time : i \in 1..Len(events)}) - DAY
TimeMax(events) ==
    SetMax({events[i].start_time : i \in 1..Len(events)}
           \cup {events[i].end_time : i \in 1..Len(events)}) + DAY

-----------------------------------------------------------------------------
(* Table synced_events: UNIQUE(unique_event_id), UNIQUE(calendar_event_id) *)

SyncRecord(e, cal_id) ==
    [sheet_event_id |-> e.sheet_id, unique_event_id |-> e.unique_id,
     calendar_event_id |-> cal_id, event_hash |-> ContentHash(e),
     event_name |-> e.name, start_time |-> Iso(e.start_time),
     end_time |-> Iso(e.end_time)]
\* The collisions of a table whose only UNIQUE constraint is unique_event_id
ConflictsOnKey(D, r) == {x \in D : x.unique_event_id = r.unique_event_id}

\* The rows a new row collides with under the two UNIQUE constraints
Conflicts(D, r) ==
    {x \in D : x.unique_event_id = r.unique_event_id
               \/ x.calendar_event_id = r.calendar_event_id}

\* An insert that deletes nothing
InsertOrReplaceKeeps(D, r) == D \cup {r}

\* INSERT OR REPLACE: the colliding rows are deleted, then the row is inserted
InsertOrReplace(D, r) == (D \ Conflicts(D, r)) \cup {r}

\* SELECT ... WHERE unique_event_id = ?
Lookup(D, uid) == {x \in D : x.unique_event_id = uid}

\* An UPDATE that stores the new hash and leaves name and times as they were
UpdateRecordHashOnly(D, e) ==
    {IF x.unique_event_id = e.unique_id
     THEN [x EXCEPT !.event_hash = ContentHash(e)]
     ELSE x : x \in D}

\* UPDATE ... SET event_hash, event_name, start_time, end_time WHERE unique_event_id = ?
UpdateRecord(D, e) ==
    {IF x.unique_event_id = e.unique_id
     THEN [x EXCEPT !.event_hash = ContentHash(e), !.event_name = e.name,
                    !.start_time = Iso(e.start_time), !.end_time = Iso(e.end_time)]
     ELSE x : x \in D}
\* A delete that takes every record of the event's Event ID
DeleteRecordOfSheetId(D, uid) == {x \in D : x.sheet_event_id /= uid[1]}

\* DELETE FROM synced_events WHERE unique_event_id = ?
DeleteRecord(D, uid) == {x \in D : x.unique_event_id /= uid}

-----------------------------------------------------------------------------
(* create_event_with_retry.  ans[k] is the service's answer to the k-th     *)
(* insert call: "ok" or the text of the exception it raises.               *)

AllOk == [k \in 1..MAX_RETRIES |-> "ok"]

\* Answers differ only up to the first "ok": no call is made after it
InsertAnswers ==
    {ans \in [1..MAX_RETRIES -> {"ok", "err503", "err429"}] :
        \A k \in 1..MAX_RETRIES : ans[k] = "ok" => \A j \in k..MAX_RETRIES : ans[j] = "ok"}

\* A retry loop that raises the first attempt's exception
RECURSIVE CreateEventWithRetryFirstError(_, _)
CreateEventWithRetryFirstError(ans, attempt) ==
    IF attempt >= MAX_RETRIES
    THEN [ok |-> FALSE, raised |-> FALSE, calls |-> attempt, error |-> ""]
    ELSE IF ans[attempt + 1] = "ok"
    THEN [ok |-> TRUE, raised |-> FALSE, calls |-> attempt + 1, error |-> ""]
    ELSE IF attempt < MAX_RETRIES - 1
    THEN CreateEventWithRetryFirstError(ans, attempt + 1)
    ELSE [ok |-> FALSE, raised |-> TRUE, calls |-> attempt + 1, error |-> ans[1]]

\* The position of the first insert call the service answers, 0 if none
FirstOk(ans) ==
    IF \E k \in 1..MAX_RETRIES : ans[k] = "ok"
    THEN CHOOSE k \in 1..MAX_RETRIES :
            ans[k] = "ok" /\ \A j \in 1..(k - 1) : ans[j] /= "ok"
    ELSE 0
\* A retry loop that makes every attempt, whatever the answers
CreateEventWithRetryAll(ans, attempt) ==
    [ok |-> \E k \in 1..MAX_RETRIES : ans[k] = "ok",
     raised |-> \A k \in 1..MAX_RETRIES : ans[k] /= "ok",
     calls |-> MAX_RETRIES, error |-> ans[MAX_RETRIES]]

\* A retry loop that returns None when its last attempt fails
RECURSIVE CreateEventWithRetryNone(_, _)
CreateEventWithRetryNone(ans, attempt) ==
    IF attempt >= MAX_RETRIES
    THEN [ok |-> FALSE, raised |-> FALSE, calls |-> attempt, error |-> ""]
    ELSE IF ans[attempt + 1] = "ok"
    THEN [ok |-> TRUE, raised |-> FALSE, calls |-> attempt + 1, error |-> ""]
    ELSE CreateEventWithRetryNone(ans, attempt + 1)

RECURSIVE CreateEventWithRetry(_, _)
CreateEventWithRetry(ans, attempt) ==
    IF attempt >= MAX_RETRIES
    THEN [ok |-> FALSE, raised |-> FALSE, calls |-> attempt, error |-> ""]
    ELSE IF ans[attempt + 1] = "ok"
    THEN [ok |-> TRUE, raised |-> FALSE, calls |-> attempt + 1, error |-> ""]
    ELSE IF attempt < MAX_RETRIES - 1
    THEN CreateEventWithRetry(ans, attempt + 1)
    ELSE [ok |-> FALSE, raised |-> TRUE, calls |-> attempt + 1, error |-> ans[attempt + 1]]

-----------------------------------------------------------------------------
(* One iteration of the loop of sync_events, for event e, given the answers *)
(* of the service: getAns to events().get, updAns to events().update, and   *)
(* insAns to the insert calls.  Yields the tables and the calendar after    *)
(* the iteration, and what the iteration did.                               *)

\* A comparison that never sees a change
UnchangedAlways(stored_hash, content_hash) == TRUE

\* A comparison that finds every stored hash changed
UnchangedNever(stored_hash, content_hash) == FALSE

\* Line 636: stored_hash == content_hash
Unchanged(stored_hash, content_hash) == stored_hash = content_hash

\* An except clause that keeps the record
AfterVerifyKeeps(D, uid, raised) == D

\* Lines 662-667: the except clause of the inner try deletes the record when
\* get or update raised; a cancelled entry raises nothing
AfterVerify(D, uid, raised) == IF raised THEN DeleteRecord(D, uid) ELSE D

\* A snapshot test that never matches
InSnapshotNever(key, snap) == FALSE

\* Line 670: content_key in existing_calendar_events
InSnapshot(key, snap) == key \in DOMAIN snap

\* An except clause that catches nothing
CaughtNever(error) == FALSE
\* An except clause for the errors of the calendar service only
CaughtServiceErrors(error) == error \in {"err503", "err429"}

\* Line 709: except Exception catches whatever the iteration raises
Caught(error) == TRUE

ProcessEvent(e, D, cal, snap, getAns, updAns, insAns) ==
    LET recs == Lookup(D, e.unique_id)
        had == recs /= {}
        rec == CHOOSE x \in recs : TRUE
        cal_id == rec.calendar_event_id
        lookup == IF ~had THEN "none"
                  ELSE IF cal[cal_id].status = "gone" THEN "notfound"
                  ELSE IF getAns /= "ok" THEN "failed"
                  ELSE IF cal[cal_id].status = "cancelled" THEN "cancelled"
                  ELSE "live"
        same == had /\ Unchanged(rec.event_hash, ContentHash(e))
        updCalled == lookup = "live" /\ ~same
        updOk == updCalled /\ updAns = "ok"
        D1 == AfterVerify(D, e.unique_id,
                          lookup \in {"notfound", "failed"} \/ (updCalled /\ ~updOk))
        key == ContentKey(e)
        cr == CreateEventWithRetry(insAns, 0)
        newrec == SyncRecord(e, Len(cal) + 1)
        base == [db |-> D, calendar |-> cal, outcome |-> "none", lookup |-> lookup,
                 in_snapshot |-> key \in DOMAIN snap,
                 gets |-> IF had THEN 1 ELSE 0,
                 updates |-> IF updCalled THEN 1 ELSE 0,
                 inserts |-> 0, first_ok |-> 0, last_answer |-> "", error |-> "",
                 fault |-> lookup = "failed" \/ (updCalled /\ ~updOk)]
        tried == [base EXCEPT !.inserts = cr.calls,
                              !.first_ok = FirstOk(insAns),
                              !.last_answer = insAns[cr.calls],
                              !.fault = base.fault \/ cr.calls > 1 \/ ~cr.ok]
    IN  IF lookup = "live" /\ same
        THEN [base EXCEPT !.outcome = "skipped"]
        ELSE IF updOk
        THEN [base EXCEPT !.outcome = "updated",
                          !.calendar = UpdateInPlace(cal, cal_id, ToGoogleEvent(e)),
                          !.db = UpdateRecord(D, e)]
        ELSE IF InSnapshot(key, snap)
        THEN [base EXCEPT !.outcome = "linked",
                          !.db = InsertOrReplace(D1, SyncRecord(e, snap[key]))]
        ELSE IF cr.ok /\ Conflicts(D1, newrec) = {}
        THEN [tried EXCEPT !.outcome = "created",
                           !.calendar = Append(cal, EntryOf(ToGoogleEvent(e))),
                           !.db = D1 \cup {newrec}]
        ELSE IF cr.ok
        THEN [tried EXCEPT !.outcome = "error",
                           !.calendar = Append(cal, EntryOf(ToGoogleEvent(e))),
                           !.db = D1,
                           !.error = "UNIQUE constraint failed"]
        ELSE IF cr.raised
        THEN [tried EXCEPT !.outcome = "error", !.db = D1, !.error = cr.error]
        ELSE [tried EXCEPT !.db = D1]

-----------------------------------------------------------------------------
(* The state after construction.  _init_database opens the database the    *)
(* service persisted before: a fresh one, beside an empty calendar or one   *)
(* that holds entries made by hand; or the database a first healthy run    *)
(* over the sheet <<R1>> left, beside the calendar that run left.          *)

NoEvent == CalendarEvent("", <<>>, 0, 0, "", "", "", 0)

\* What an iteration reads and writes
View(cal, D, c, u, s, e, flog) ==
    [calendar |-> cal, db |-> D, created |-> c, updated |-> u, skipped |-> s,
     errors |-> e, failed_log |-> flog]

NoView == View(<<>>, {}, 0, 0, 0, 0, <<>>)

NoLast == [event |-> NoEvent, outcome |-> "none", lookup |-> "none",
           in_snapshot |-> FALSE, gets |-> 0, updates |-> 0, inserts |-> 0,
           first_ok |-> 0, last_answer |-> "", error |-> "", fault |-> FALSE,
           existing |-> EmptySnapshot, aborted |-> FALSE,
           before |-> NoView, after |-> NoView]

NoResult == [status |-> "none"]

\* The tables of the database file
Tables(D, slog, flog, vlog, dlog) ==
    [db |-> D, sync_log |-> slog, failed_log |-> flog, validation_log |-> vlog,
     duplicate_log |-> dlog]

NoTables == Tables({}, <<>>, <<>>, <<>>, <<>>)

\* What an operation starts from and what it leaves
Scene(cal, t) == [calendar |-> cal, db |-> t.db, sync_log |-> t.sync_log]

NoCall == [name |-> "none", services |-> "ok", bucket |-> TRUE, values |-> <<>>,
           failing |-> {}, listed |-> FALSE, iterations |-> 0,
           before |-> Scene(<<>>, NoTables), after |-> Scene(<<>>, NoTables)]

\* The two service instances of overlapping requests
Instances == {1, 2}

\* An instance that has not started: its copy of the database, its events,
\* its snapshot, its position and counters, and the entries it inserted
NoRun ==
    [pc |-> "idle", tables |-> NoTables, events |-> <<>>,
     existing |-> EmptySnapshot, idx |-> 1,
     created |-> 0, updated |-> 0, skipped |-> 0, errors |-> 0,
     inserted |-> {}]

NoOverlap ==
    [sheet |-> <<>>, run |-> [i \in Instances |-> NoRun],
     overlapped |-> FALSE, saved |-> 0]

FirstEvent == RowEvent(<<R1>>, 1)

FirstRunLog ==
    [events_created |-> 1, events_updated |-> 0, events_skipped |-> 0,
     events_deleted |-> 0, errors |-> 0, status |-> "completed", total_processed |-> 1]

FirstRun ==
    [events |-> <<FirstEvent>>, clean |-> TRUE, follows |-> FALSE,
     fresh |-> TRUE, created |-> 1, updated |-> 0, skipped |-> 0, errors |-> 0]

InitFresh ==
    /\ calendar \in InitCalendars
    /\ db = {}
    /\ sync_log = <<>>
    /\ runs = <<>>

InitSynced ==
    /\ calendar = <<EntryOf(ToGoogleEvent(FirstEvent))>>
    /\ db = {SyncRecord(FirstEvent, 1)}
    /\ sync_log = <<FirstRunLog>>
    /\ runs = <<FirstRun>>

Init ==
    /\ InitFresh \/ InitSynced
    /\ durable = db
    /\ blob = Tables(db, sync_log, <<>>, <<>>, <<>>)
    /\ bucket = TRUE
    /\ values = <<>>
    /\ call = NoCall
    /\ pending = 0
    /\ unsaved = 0
    /\ failed_log = <<>>
    /\ validation_log = <<>>
    /\ duplicate_log = <<>>
    /\ pc = "idle"
    /\ sheet_events = <<>>
    /\ invalid_events = <<>>
    /\ duplicate_tracking = <<>>
    /\ existing = EmptySnapshot
    /\ idx = 1
    /\ created = 0 /\ updated = 0 /\ skipped = 0 /\ errors = 0
    /\ failed_events = <<>>
    /\ result = NoResult
    /\ last = NoLast
    /\ atStart = [calendar |-> calendar, db |-> db, list_ok |-> TRUE]
    /\ runClean = TRUE
    /\ idleClean = TRUE
    /\ steps = 0
    /\ overlap = NoOverlap

-----------------------------------------------------------------------------
(* __init__: every request builds a CalendarSyncService of its own.         *)

\* _init_services, lines 245-252: both Google clients are built, or build
\* raises and both are None
Services == {"ok", "none"}

\* _init_services, lines 254-261: the storage client is built ("ok"), or it
\* raises and self.bucket is None, in the instance that served the last
\* request ("none") or in a new instance with an empty temp directory ("fresh")
Stores == {"ok", "none", "fresh"}

\* _init_database: with a bucket the uploaded file replaces the local one;
\* without, the connection opens on what the temp directory holds
Opened(store) ==
    CASE store = "ok" -> blob
      [] store = "none" -> Tables(durable, sync_log, failed_log, validation_log,
                                  duplicate_log)
      [] OTHER -> NoTables
\* A save that never uploads
SavedNever(has_bucket, t) == blob

\* save_database: with a bucket the file is uploaded, without nothing is done
Saved(has_bucket, t) == IF has_bucket THEN t ELSE blob

\* The clients that failed to initialize
InitFailures(services, store) ==
    (IF services = "ok" THEN 0 ELSE 1) + (IF store = "ok" THEN 0 ELSE 1)

\* read_sheet_events: without a sheets client line 381 raises and line 497
\* returns nothing
ReadSheetEvents(sheet, services) ==
    IF services = "ok"
    THEN [events |-> ValidEvents(sheet, 1), invalid |-> InvalidEvents(sheet, 1),
          tracking |-> DuplicateTracking(sheet),
          duplicates |-> DuplicateRows(sheet, 1)]
    ELSE [events |-> <<>>, invalid |-> <<>>, tracking |-> <<>>, duplicates |-> <<>>]

-----------------------------------------------------------------------------
(* sync_events *)

\* An early return that never answers 'partial'
NoEventsStatusError(invalid) == "error"

\* Line 582: the status of the early return
NoEventsStatus(invalid) == IF invalid = <<>> THEN "error" ELSE "partial"

\* Line 751: the status of a run that ran the loop
ResultStatus(errs) == IF errs = 0 THEN "success" ELSE "partial"
\* A loop that never commits before its end
BatchBoundaryNever(n) == FALSE

\* Line 705: created % Config.BATCH_SIZE == 0
BatchBoundary(n) == n % BATCH_SIZE = 0

\* Lines 576-586: the reader yields no valid event, the run returns at once.
\* What read_sheet_events inserted is never committed and is lost on close.
SyncNoEvents(sheet, services, store) ==
    /\ pc = "idle"
    /\ steps + 1 + InitFailures(services, store) <= MaxSteps
    /\ LET read == ReadSheetEvents(sheet, services)
           t == Opened(store)
       IN  /\ read.events = <<>>
           /\ result' = [status |-> NoEventsStatus(read.invalid),
                         message |-> "No valid events in sheet",
                         invalid_events |-> Len(read.invalid)]
           /\ db' = t.db /\ durable' = t.db
           /\ sync_log' = t.sync_log /\ failed_log' = t.failed_log
           /\ validation_log' = t.validation_log
           /\ duplicate_log' = t.duplicate_log
           /\ call' = [name |-> "sync_events", services |-> services,
                       bucket |-> (store = "ok"),
                       values |-> IF services = "ok" THEN sheet ELSE <<>>,
                       failing |-> {}, listed |-> FALSE, iterations |-> 0,
                       before |-> Scene(calendar, t), after |-> Scene(calendar, t)]
    /\ steps' = steps + 1 + InitFailures(services, store)
    /\ idleClean' = FALSE
    /\ last' = NoLast
    /\ UNCHANGED <<calendar, blob, bucket, pc, values, sheet_events, invalid_events,
                   duplicate_tracking, existing, idx, created, updated, skipped,
                   errors, failed_events, atStart, pending, unsaved, runs, runClean>>
    /\ UNCHANGED overlap

\* Lines 576-602: read the sheet, take the calendar snapshot, zero the counters
SyncStart(sheet, store, listAns) ==
    /\ pc = "idle"
    \* the budget counts a run once for every batch its sheet begins
    /\ steps + 1 + Len(sheet) \div BATCH_SIZE + InitFailures("ok", store)
          + (IF listAns = "ok" THEN 0 ELSE 1) <= MaxSteps
    /\ LET read == ReadSheetEvents(sheet, "ok")
           t == Opened(store)
       IN  /\ read.events /= <<>>
           /\ values' = sheet
           /\ sheet_events' = read.events
           /\ invalid_events' = read.invalid
           /\ duplicate_tracking' = read.tracking
           /\ db' = t.db /\ durable' = t.db
           /\ sync_log' = t.sync_log /\ failed_log' = t.failed_log
           /\ duplicate_log' = t.duplicate_log \o read.duplicates
           /\ validation_log' = t.validation_log \o read.invalid
           /\ atStart' = [calendar |-> calendar, db |-> t.db, list_ok |-> listAns = "ok"]
    /\ bucket' = (store = "ok")
    /\ existing' \in GetExistingCalendarEvents(calendar, TimeMin(sheet_events'),
                                                TimeMax(sheet_events'), listAns)
    /\ idx' = 1
    /\ created' = 0 /\ updated' = 0 /\ skipped' = 0 /\ errors' = 0
    /\ failed_events' = <<>>
    /\ pending' = 0 /\ unsaved' = 0
    /\ pc' = "loop"
    /\ last' = NoLast
    /\ runClean' = (listAns = "ok" /\ store = "ok")
    /\ result' = NoResult
    /\ steps' = steps + 1 + Len(sheet) \div BATCH_SIZE + InitFailures("ok", store)
                 + (IF listAns = "ok" THEN 0 ELSE 1)
    /\ UNCHANGED <<calendar, blob, call, runs, idleClean>>
    /\ UNCHANGED overlap

\* The failing answers among those given to one iteration
Failures(getAns, updAns, insAns) ==
    (IF getAns = "ok" THEN 0 ELSE 1) + (IF updAns = "ok" THEN 0 ELSE 1)
    + (IF insAns = AllOk THEN 0 ELSE 1)

\* Lines 605-726: one iteration of the loop.  An exception that line 709 did
\* not catch would leave sync_events; sync_calendar (lines 1049-1055) answers
\* it with status error, and what was not committed is lost.
SyncEvent(getAns, updAns, insAns) ==
    /\ pc = "loop" /\ idx <= Len(sheet_events)
    /\ steps + Failures(getAns, updAns, insAns) <= MaxSteps
    /\ LET e == sheet_events[idx]
           r == ProcessEvent(e, db, calendar, existing, getAns, updAns, insAns)
           failure == [row |-> e.row_number, name |-> e.name,
                       start_time |-> Iso(e.start_time), error |-> r.error]
       IN  \* an answer other than "ok" is the answer to a call that is made
           /\ getAns /= "ok" => r.gets > 0
           /\ updAns /= "ok" => r.updates > 0
           /\ insAns /= AllOk => r.inserts > 0
           /\ calendar' = r.calendar
           /\ runClean' = (runClean /\ ~r.fault)
           /\ IF r.outcome = "error" /\ ~Caught(r.error)
              THEN /\ pc' = "idle"
                   /\ result' = [status |-> "error", error |-> r.error]
                   /\ db' = durable
                   /\ idleClean' = FALSE
                   /\ sheet_events' = <<>> /\ invalid_events' = <<>>
                   /\ duplicate_tracking' = <<>>
                   /\ existing' = EmptySnapshot /\ idx' = 1
                   /\ created' = 0 /\ updated' = 0 /\ skipped' = 0 /\ errors' = 0
                   /\ failed_events' = <<>>
                   /\ values' = <<>> /\ bucket' = TRUE
                   /\ pending' = 0 /\ unsaved' = 0
                   /\ call' = [name |-> "sync_events raised", services |-> "ok",
                               bucket |-> bucket, values |-> values,
                               failing |-> {}, listed |-> TRUE, iterations |-> idx,
                               before |-> [calendar |-> atStart.calendar,
                                           db |-> atStart.db, sync_log |-> sync_log],
                               after |-> [calendar |-> calendar', db |-> durable,
                                          sync_log |-> sync_log]]
                   /\ UNCHANGED <<durable, failed_log>>
              ELSE /\ db' = r.db
                   /\ created' = created + (IF r.outcome = "created" THEN 1 ELSE 0)
                   /\ updated' = updated + (IF r.outcome = "updated" THEN 1 ELSE 0)
                   /\ skipped' = skipped + (IF r.outcome \in {"skipped", "linked"} THEN 1 ELSE 0)
                   /\ errors' = errors + (IF r.outcome = "error" THEN 1 ELSE 0)
                   /\ failed_events' = IF r.outcome = "error"
                                       THEN Append(failed_events, failure)
                                       ELSE failed_events
                   /\ failed_log' = IF r.outcome = "error"
                                    THEN Append(failed_log,
                                                [sheet_event_id |-> e.sheet_id,
                                                 unique_event_id |-> e.unique_id,
                                                 event_name |-> e.name,
                                                 error_message |-> r.error,
                                                 row_number |-> e.row_number])
                                    ELSE failed_log
                   /\ durable' = IF r.outcome = "created" /\ BatchBoundary(created')
                                 THEN db' ELSE durable
                   /\ pending' = IF r.outcome /= "created" THEN pending
                                 ELSE IF BatchBoundary(created') THEN 0
                                 ELSE pending + 1
                   /\ unsaved' = unsaved + (IF db' /= db THEN 1 ELSE 0)
                   /\ idx' = idx + 1
                   /\ UNCHANGED <<pc, values, bucket, call, sheet_events,
                                  invalid_events, duplicate_tracking,
                                  existing, result, idleClean>>
           /\ last' = [event |-> e, outcome |-> r.outcome, lookup |-> r.lookup,
                       in_snapshot |-> r.in_snapshot, gets |-> r.gets,
                       updates |-> r.updates, inserts |-> r.inserts,
                       first_ok |-> r.first_ok,
                       last_answer |-> r.last_answer, error |-> r.error,
                       fault |-> r.fault, existing |-> existing,
                       aborted |-> (pc' /= "loop"),
                       before |-> View(calendar, db, created, updated, skipped,
                                       errors, failed_log),
                       after |-> View(calendar', db', created', updated', skipped',
                                      errors', failed_log')]
    /\ steps' = steps + Failures(getAns, updAns, insAns)
    /\ UNCHANGED <<blob, sync_log, validation_log, duplicate_log, atStart, runs>>
    /\ UNCHANGED overlap

LastTwo(s) == IF Len(s) > 2 THEN SubSeq(s, Len(s) - 1, Len(s)) ELSE s

\* Lines 728-771: commit, save, append the run to sync_log, commit, save,
\* return the result
SyncFinish ==
    /\ pc = "loop" /\ idx > Len(sheet_events)
    /\ durable' = db
    /\ sync_log' = Append(sync_log,
                          [events_created |-> created, events_updated |-> updated,
                           events_skipped |-> skipped, events_deleted |-> 0,
                           errors |-> errors, status |-> "completed",
                           total_processed |-> Len(sheet_events)])
    /\ blob' = Saved(bucket, Tables(db, sync_log', failed_log, validation_log,
                                    duplicate_log))
    /\ result' = [status |-> ResultStatus(errors),
                  created |-> created, updated |-> updated, skipped |-> skipped,
                  errors |-> errors, total_processed |-> Len(sheet_events),
                  invalid_events |-> Len(invalid_events),
                  duplicate_event_ids |-> DuplicateCount(duplicate_tracking)]
    /\ call' = [name |-> "sync_events", services |-> "ok", bucket |-> bucket,
                values |-> values, failing |-> {}, listed |-> TRUE,
                iterations |-> Len(sheet_events),
                before |-> [calendar |-> atStart.calendar, db |-> atStart.db,
                            sync_log |-> sync_log],
                after |-> [calendar |-> calendar, db |-> db, sync_log |-> sync_log']]
    /\ runs' = LastTwo(Append(runs, [events |-> sheet_events, clean |-> runClean,
                                      follows |-> idleClean,
                                      fresh |-> (atStart.calendar = <<>>
                                                 /\ atStart.db = {}),
                                      created |-> created, updated |-> updated,
                                      skipped |-> skipped, errors |-> errors]))
    /\ pc' = "idle"
    /\ idleClean' = TRUE
    \* the locals of the call end with it
    /\ values' = <<>> /\ bucket' = TRUE
    /\ sheet_events' = <<>> /\ invalid_events' = <<>> /\ duplicate_tracking' = <<>>
    /\ existing' = EmptySnapshot /\ idx' = 1
    /\ created' = 0 /\ updated' = 0 /\ skipped' = 0 /\ errors' = 0
    /\ failed_events' = <<>>
    /\ pending' = 0 /\ unsaved' = 0
    /\ UNCHANGED <<calendar, db, failed_log, validation_log, duplicate_log,
                   last, atStart, runClean, steps>>
    /\ UNCHANGED overlap

-----------------------------------------------------------------------------
(* delete_events_in_range.  now is the clock; failing holds the entries    *)
(* whose events().delete call raises.                                       *)

Nows == {0, 30 * DAY}

\* The sets of entries whose delete call raises: at most two of them
Failing(cal) == {{}} \cup {{a, b} : a, b \in 1..Len(cal)}

\* A loop that the first failing delete call ends
DeletedUntilFailure(targets, failing) ==
    {id \in targets : \A f \in failing : id < f}

\* Lines 797-820: the entries whose delete call returned; a call that raises
\* is caught at line 819 and the loop goes on
DeletedEntries(targets, failing) == targets \ failing

DeleteEventsInRange(now, store, listAns, failing) ==
    /\ pc = "idle"
    /\ steps + 1 + InitFailures("ok", store) + (IF listAns = "ok" THEN 0 ELSE 1)
          + Cardinality(failing) <= MaxSteps
    /\ LET time_min == now - DAYS_BEFORE * DAY
           time_max == now + DAYS_AFTER * DAY
           targets == {id \in Listed(calendar, time_min, time_max) :
                          calendar[id].status /= "cancelled"}
           deleted == DeletedEntries(targets, failing)
           t == Opened(store)
       IN  /\ sync_log' = t.sync_log /\ failed_log' = t.failed_log
           /\ validation_log' = t.validation_log
           /\ duplicate_log' = t.duplicate_log
           /\ IF listAns = "ok"
              THEN /\ failing \subseteq targets
                   /\ calendar' = [id \in 1..Len(calendar) |->
                                     IF id \in deleted
                                     THEN [calendar[id] EXCEPT !.status = "cancelled"]
                                     ELSE calendar[id]]
                   /\ db' = {x \in t.db : x.calendar_event_id \notin deleted}
                   /\ durable' = db'
                   /\ blob' = Saved(store = "ok", [t EXCEPT !.db = db'])
                   /\ result' = [status |-> "success",
                                 deleted_count |-> Cardinality(deleted),
                                 date_range |-> [from |-> time_min, to |-> time_max]]
              ELSE /\ failing = {}
                   /\ result' = [status |-> "error"]
                   /\ db' = t.db /\ durable' = t.db
                   /\ UNCHANGED <<calendar, blob>>
           /\ call' = [name |-> "delete_events_in_range", services |-> "ok",
                       bucket |-> (store = "ok"), values |-> <<>>,
                       failing |-> failing, listed |-> TRUE, iterations |-> 0,
                       before |-> Scene(calendar, t),
                       after |-> [calendar |-> calendar', db |-> db',
                                  sync_log |-> t.sync_log]]
    /\ steps' = steps + 1 + InitFailures("ok", store)
                 + (IF listAns = "ok" THEN 0 ELSE 1) + Cardinality(failing)
    /\ idleClean' = FALSE
    /\ last' = NoLast
    /\ UNCHANGED <<bucket, pc, values, sheet_events, invalid_events,
                   duplicate_tracking, existing, idx, created, updated, skipped,
                   errors, failed_events, atStart, pending, unsaved, runs, runClean>>
    /\ UNCHANGED overlap

(* reset_sync_data: with force the five tables are dropped and recreated,   *)
(* without it their rows are deleted.                                       *)

ResetSyncData(force, store) ==
    /\ pc = "idle"
    /\ steps + 1 + InitFailures("ok", store) <= MaxSteps
    /\ db' = {}
    /\ durable' = {}
    /\ sync_log' = <<>>
    /\ failed_log' = <<>>
    /\ validation_log' = <<>>
    /\ duplicate_log' = <<>>
    /\ blob' = Saved(store = "ok", NoTables)
    /\ result' = [status |-> "success", force |-> force]
    /\ call' = [name |-> "reset_sync_data", services |-> "ok",
                bucket |-> (store = "ok"), values |-> <<>>,
                failing |-> {}, listed |-> FALSE, iterations |-> 0,
                before |-> Scene(calendar, Opened(store)),
                after |-> Scene(calendar, NoTables)]
    /\ steps' = steps + 1 + InitFailures("ok", store)
    /\ idleClean' = FALSE
    /\ last' = NoLast
    /\ UNCHANGED <<calendar, bucket, pc, values, sheet_events, invalid_events,
                   duplicate_tracking, existing, idx, created, updated, skipped,
                   errors, failed_events, atStart, pending, unsaved, runs, runClean>>
    /\ UNCHANGED overlap

-----------------------------------------------------------------------------
(* Out-of-band changes: a person deletes an entry (the service then answers *)
(* get with status cancelled), or a deleted entry is purged (get answers    *)
(* not-found).                                                              *)

OutOfBand(id, status) ==
    /\ steps < MaxSteps
    /\ id \in 1..Len(calendar)
    /\ calendar[id].status = "confirmed"
    /\ calendar' = [calendar EXCEPT ![id].status = status]
    /\ steps' = steps + 1
    /\ runClean' = FALSE
    /\ idleClean' = FALSE
    /\ UNCHANGED <<db, durable, blob, bucket, sync_log, failed_log, validation_log,
                   duplicate_log, pc, values, sheet_events, invalid_events,
                   duplicate_tracking, existing, idx, created, updated, skipped,
                   errors, failed_events, result, last, atStart, call, pending,
                   unsaved, runs>>
    /\ UNCHANGED overlap

-----------------------------------------------------------------------------

Next ==
    \/ \E sheet \in Sheets, services \in Services, store \in Stores :
          SyncNoEvents(sheet, services, store)
    \/ \E sheet \in Sheets, store \in Stores, listAns \in {"ok", "fail"} :
          SyncStart(sheet, store, listAns)
    \/ \E getAns \in {"ok", "fail"} : \E updAns \in {"ok", "fail"} :
          \E insAns \in IF steps + Failures(getAns, updAns, AllOk) < MaxSteps
                         THEN InsertAnswers ELSE {AllOk} :
              SyncEvent(getAns, updAns, insAns)
    \/ SyncFinish
    \/ \E now \in Nows, store \in Stores, listAns \in {"ok", "fail"},
          failing \in Failing(calendar) :
          DeleteEventsInRange(now, store, listAns, failing)
    \/ \E force \in BOOLEAN, store \in Stores : ResetSyncData(force, store)
    \/ \E id \in 1..Len(calendar), status \in {"cancelled", "gone"} : OutOfBand(id, status)

Spec == Init /\ [][Next]_vars

-----------------------------------------------------------------------------
(* Runs of sync_events alone, on the database of the bucket, with every     *)
(* answer of the calendar service.  The loop of sync_events is sequential   *)
(* code: an iteration that can be made is made, and so is the end of the    *)
(* run.                                                                     *)

RunSheets == { <<R1>>, <<R7, R3>>, <<R1, R5>>, <<R1, R6>> }

LoopStep ==
    \E getAns \in {"ok", "fail"} : \E updAns \in {"ok", "fail"} :
        \E insAns \in IF steps + Failures(getAns, updAns, AllOk) < MaxSteps
                       THEN InsertAnswers ELSE {AllOk} :
            SyncEvent(getAns, updAns, insAns)

NextRun ==
    \/ \E sheet \in RunSheets, listAns \in {"ok", "fail"} :
          SyncStart(sheet, "ok", listAns)
    \/ LoopStep
    \/ SyncFinish
    \/ \E id \in 1..Len(calendar), status \in {"cancelled", "gone"} : OutOfBand(id, status)

SpecLive == Init /\ [][NextRun]_vars /\ WF_vars(LoopStep) /\ WF_vars(SyncFinish)

-----------------------------------------------------------------------------
(* Two requests to /sync at a time.  Each request builds its own service:   *)
(* the instance downloads the database from the bucket, reconciles the      *)
(* sheet against the one calendar on its own copy, and uploads the copy    *)
(* when it ends.  Every call to the calendar is answered.                  *)

OverlapSheets == { <<R1>>, <<R1, R5>>, <<R1, R6>> }

\* The variables the two instances leave alone
others == <<db, durable, bucket, sync_log, failed_log, validation_log,
            duplicate_log, pc, values, sheet_events, invalid_events,
            duplicate_tracking, existing, idx, created, updated, skipped,
            errors, failed_events, result, last, atStart, call, pending,
            unsaved, runs, runClean, idleClean, steps>>

\* Lines 263-285 and 576-602: instance i downloads the database, reads the
\* sheet and takes its snapshot
OverlapStart(i, sheet) ==
    /\ overlap.run[i].pc = "idle"
    /\ overlap.sheet \in {<<>>, sheet}
    /\ LET events == ReadSheetEvents(sheet, "ok").events
       IN  \E snap \in Snapshots(calendar, TimeMin(events), TimeMax(events)) :
              overlap' = [overlap EXCEPT
                            !.sheet = sheet,
                            !.run[i] = [NoRun EXCEPT !.pc = "loop",
                                                     !.tables = Opened("ok"),
                                                     !.events = events,
                                                     !.existing = snap],
                            !.overlapped = @ \/ \E j \in Instances :
                                                   overlap.run[j].pc = "loop"]
    /\ UNCHANGED <<calendar, blob, others>>

\* Lines 605-726: instance i reconciles its next event
OverlapEvent(i) ==
    LET run == overlap.run[i]
    IN  /\ run.pc = "loop" /\ run.idx <= Len(run.events)
        /\ LET e == run.events[run.idx]
               r == ProcessEvent(e, run.tables.db, calendar, run.existing,
                                 "ok", "ok", AllOk)
               n(outcomes) == IF r.outcome \in outcomes THEN 1 ELSE 0
           IN  /\ calendar' = r.calendar
               /\ overlap' = [overlap EXCEPT
                                !.run[i].tables.db = r.db,
                                !.run[i].idx = @ + 1,
                                !.run[i].created = @ + n({"created"}),
                                !.run[i].updated = @ + n({"updated"}),
                                !.run[i].skipped = @ + n({"skipped", "linked"}),
                                !.run[i].errors = @ + n({"error"}),
                                !.run[i].inserted =
                                    IF Len(r.calendar) > Len(calendar)
                                    THEN @ \cup {<<e.unique_id, Len(r.calendar)>>}
                                    ELSE @]
        /\ UNCHANGED <<blob, others>>

\* Lines 728-746: instance i logs its run and uploads its copy
OverlapFinish(i) ==
    LET run == overlap.run[i]
        t == [run.tables EXCEPT
                 !.sync_log = Append(@, [events_created |-> run.created,
                                         events_updated |-> run.updated,
                                         events_skipped |-> run.skipped,
                                         events_deleted |-> 0,
                                         errors |-> run.errors,
                                         status |-> "completed",
                                         total_processed |-> Len(run.events)])]
    IN  /\ run.pc = "loop" /\ run.idx > Len(run.events)
        /\ blob' = Saved(TRUE, t)
        /\ overlap' = [overlap EXCEPT !.run[i].pc = "done",
                                      !.run[i].tables = t,
                                      !.saved = i]
        /\ UNCHANGED <<calendar, others>>

NextOverlap ==
    \/ \E i \in Instances, sheet \in OverlapSheets : OverlapStart(i, sheet)
    \/ \E i \in Instances : OverlapEvent(i)
    \/ \E i \in Instances : OverlapFinish(i)

SpecOverlap == Init /\ [][NextOverlap]_vars

-----------------------------------------------------------------------------
(* Properties.  The record last is the transcript of the latest loop        *)
(* iteration: the event, what the iteration found and called, and the       *)
(* tables, calendar and counters before and after it.                       *)

\* An iteration has run
Did == last.event /= NoEvent

\* The records the store held for the event before the iteration
Stored == Lookup(last.before.db, last.event.unique_id)

\* The records the store holds for the event after the iteration
Kept == Lookup(last.after.db, last.event.unique_id)

\* The snapshot of the run had an entry under the event's content key
Matched == ContentKey(last.event) \in DOMAIN last.existing

\* The iteration added n to created, updated, skipped and errors
Counted(c, u, s, e) ==
    /\ last.after.created = last.before.created + c
    /\ last.after.updated = last.before.updated + u
    /\ last.after.skipped = last.before.skipped + s
    /\ last.after.errors = last.before.errors + e

\* C1 (as claimed): when a run over a list of valid events completes and the
\* next run has the same list, with nothing happening in between and no
\* service failure or out-of-band change during either, the second run
\* reports created = 0, updated = 0 and every event skipped.
C1_Idempotence ==
    (/\ Len(runs) = 2
     /\ runs[2].events = runs[1].events
     /\ runs[1].clean /\ runs[2].clean /\ runs[2].follows)
    => /\ runs[2].created = 0
       /\ runs[2].updated = 0
       /\ runs[2].skipped = Len(runs[2].events)

\* The case of C2: no record for the event's unique_id, and the snapshot holds
\* an entry under the event's content key
C2_Case == Did /\ Stored = {} /\ Matched

\* C2: when the store has no record for the event's unique_id and the
\* snapshot holds an entry under the event's content key, the iteration calls
\* no insert, leaves the calendar as it is, writes the record that maps the
\* unique_id to that entry's id with the event's content hash, and counts the
\* event as skipped, not created.
C2_RelinkNotRecreate ==
    C2_Case =>
        /\ last.inserts = 0
        /\ last.after.calendar = last.before.calendar
        /\ Kept = {SyncRecord(last.event, last.existing[ContentKey(last.event)])}
        /\ Counted(0, 0, 1, 0)

C2_Witness ==
    /\ C2_Case
    /\ last.outcome = "linked"
    /\ last.after.db /= last.before.db
    /\ last.before.calendar[last.existing[ContentKey(last.event)]].status = "confirmed"

\* The case of C3: the record's entry is gone (get answers not-found) and no
\* snapshot entry matches the content key
C3_Case == Did /\ last.lookup = "notfound" /\ ~Matched

\* The new entry and the record of it that a create leaves
C3_Recreated ==
    LET new == Len(last.before.calendar) + 1
    IN  /\ Len(last.after.calendar) = new
        /\ last.after.calendar[new] = EntryOf(ToGoogleEvent(last.event))
        /\ SubSeq(last.after.calendar, 1, new - 1) = last.before.calendar
        /\ Kept = {SyncRecord(last.event, new)}
        /\ Counted(1, 0, 0, 0)

\* C3 (as claimed): in that case the iteration deletes the stale record,
\* inserts one new entry, maps the unique_id to the new entry's id and counts
\* one created and no error.
C3_AsClaimed == C3_Case => /\ Stored \cap last.after.db = {}
                           /\ C3_Recreated

\* C3 (amended): in that case the iteration deletes the stale record; when one
\* of the MAX_RETRIES create attempts succeeds it inserts one new entry, maps
\* the unique_id to the new entry's id and counts one created and no error;
\* when every attempt fails it inserts nothing, leaves no record for the
\* unique_id and counts one error and nothing created.
C3_StaleRecordRecovery ==
    C3_Case =>
        /\ Stored \cap last.after.db = {}
        /\ IF last.last_answer = "ok"
           THEN C3_Recreated
           ELSE /\ last.inserts = MAX_RETRIES
                /\ last.after.calendar = last.before.calendar
                /\ Kept = {}
                /\ Counted(0, 0, 0, 1)

C3_Witness ==
    /\ C3_Case
    /\ Stored /= {}
    /\ last.outcome = "created"
    /\ last.inserts > 1

\* The case of C4: get returns the record's entry with status cancelled, an
\* entry that was cancelled before the run took its snapshot
C4_Case ==
    /\ Did /\ last.lookup = "cancelled"
    /\ \A x \in Stored : /\ x.calendar_event_id \in DOMAIN atStart.calendar
                         /\ atStart.calendar[x.calendar_event_id].status = "cancelled"

\* C4 (as claimed): when get returns the record's entry with status cancelled
\* and no service call of the iteration fails, the stale record is deleted,
\* the store ends with a record for the unique_id that points to a live entry,
\* and the event is counted as skipped or created, never as an error.
C4_CancelledLikeFailedLookup ==
    (C4_Case /\ ~last.fault) =>
        /\ Stored \cap last.after.db = {}
        /\ \E x \in Kept : last.after.calendar[x.calendar_event_id].status = "confirmed"
        /\ Counted(0, 0, 1, 0) \/ Counted(1, 0, 0, 0)

\* The row of the latest iteration differs in name, start or end from what
\* record x keeps of the row it was synced from
RowChanged(x) ==
    \/ x.event_name /= last.event.name
    \/ x.start_time /= Iso(last.event.start_time)
    \/ x.end_time /= Iso(last.event.end_time)

\* C5 (as claimed): when the only row of the sheet has a record for its Event
\* ID whose entry is live, and the row's name, start or end differs from the
\* synced one, and no service call of the iteration fails, the iteration
\* performs exactly one update, adds one to updated and calls no insert.
C5_AsClaimed ==
    (/\ Did /\ pc = "loop" /\ Len(sheet_events) = 1 /\ ~last.fault
     /\ \E x \in last.before.db :
           /\ x.sheet_event_id = last.event.sheet_id
           /\ last.before.calendar[x.calendar_event_id].status = "confirmed"
           /\ RowChanged(x))
    => /\ last.updates = 1
       /\ last.inserts = 0
       /\ Counted(0, 1, 0, 0)

\* The case of C5: the event has a record under its unique_id (same Event ID
\* and start), get returns the entry live, and the stored hash differs: the
\* name changed by more than case and surrounding blanks, or the end changed
C5_Case ==
    /\ Did /\ last.lookup = "live"
    /\ \E x \in Stored : x.event_hash /= ContentHash(last.event)

\* C5 (amended): in that case, when the update call succeeds, the iteration
\* performs exactly one update of the record's entry and no insert, stores the
\* new hash and adds one to updated.  A row whose start changed has another
\* unique_id: it finds no record and no update is issued for it.
C5_ContentChangeDetection ==
    /\ (C5_Case /\ ~last.fault) =>
           /\ last.updates = 1
           /\ last.inserts = 0
           /\ Len(last.after.calendar) = Len(last.before.calendar)
           /\ \A x \in Stored :
                 /\ last.after.calendar[x.calendar_event_id]
                       = EntryOf(ToGoogleEvent(last.event))
                 /\ Kept = {SyncRecord(last.event, x.calendar_event_id)}
           /\ Counted(0, 1, 0, 0)
    /\ (Did /\ Stored = {}) => last.updates = 0

C5_Witness ==
    /\ C5_Case
    /\ last.outcome = "updated"
    /\ last.after.calendar /= last.before.calendar

\* The case of C6: the event has a record whose entry get returns live, and
\* the row has the synced name up to case and surrounding blanks and the
\* synced start and end
C6_Case ==
    /\ Did /\ last.lookup = "live"
    /\ \E x \in Stored :
          /\ Lower(Strip(x.event_name)) = Lower(Strip(last.event.name))
          /\ x.start_time = Iso(last.event.start_time)
          /\ x.end_time = Iso(last.event.end_time)

\* C6: in that case, whatever the row's description, event type and color
\* are, the iteration calls neither update nor insert, leaves the table and
\* the calendar as they are and counts the event as skipped.
C6_CosmeticChangeIsNoOp ==
    C6_Case =>
        /\ last.updates = 0
        /\ last.inserts = 0
        /\ last.after.db = last.before.db
        /\ last.after.calendar = last.before.calendar
        /\ Counted(0, 0, 1, 0)

C6_Witness ==
    /\ C6_Case
    /\ last.outcome = "skipped"
    /\ \E x \in Stored :
          LET entry == last.before.calendar[x.calendar_event_id]
              body == ToGoogleEvent(last.event)
          IN  /\ x.event_name /= last.event.name
              /\ entry.description /= body.description
              /\ entry.colorId /= body.colorId

\* The case of C7: the iteration made MAX_RETRIES insert calls and the last
\* one failed, so every one failed
C7_Case == Did /\ last.inserts = MAX_RETRIES /\ last.last_answer /= "ok"

\* C7: when every create attempt fails, the iteration adds one to errors and
\* nothing to created, appends to failed_events one row with the event's row
\* number and the last attempt's error message, adds no entry to the calendar
\* and writes no record.
C7_RetryExhaustion ==
    C7_Case =>
        /\ Counted(0, 0, 0, 1)
        /\ last.after.failed_log =
              Append(last.before.failed_log,
                     [sheet_event_id |-> last.event.sheet_id,
                      unique_event_id |-> last.event.unique_id,
                      event_name |-> last.event.name,
                      error_message |-> last.last_answer,
                      row_number |-> last.event.row_number])
        /\ last.after.calendar = last.before.calendar
        /\ last.after.db \subseteq last.before.db
        /\ Kept \subseteq Stored

C7_Witness ==
    /\ C7_Case
    /\ last.outcome = "error"
    /\ last.error = "err429"
    /\ Len(last.after.failed_log) = 1

\* C8: an iteration that ends in an error (retries exhausted, or the INSERT
\* into synced_events refused) adds exactly one to errors and leaves the loop
\* running; every run that reaches the end of the loop has given each of its
\* events one outcome; and the result it returns has status success or
\* partial, partial exactly when errors were counted, with the counts of the
\* run.
C8_ErrorNeverAborts ==
    /\ (Did /\ last.outcome = "error") => (~last.aborted /\ Counted(0, 0, 0, 1))
    /\ Did => ~last.aborted
    /\ \A i \in 1..Len(runs) :
          runs[i].created + runs[i].updated + runs[i].skipped + runs[i].errors
             = Len(runs[i].events)
    /\ (pc = "idle" /\ Did) =>
          /\ result.status \in {"success", "partial"}
          /\ result.status = "partial" <=> result.errors > 0
          /\ result.errors = runs[Len(runs)].errors
          /\ result.total_processed = Len(runs[Len(runs)].events)

\* A run returned after its first event failed on exhausted retries and its
\* second was created
C8_Witness ==
    /\ pc = "idle" /\ Did /\ Len(runs) >= 1
    /\ LET run == runs[Len(runs)]
       IN  /\ Len(run.events) = 2
           /\ run.errors = 1 /\ run.created = 1
           /\ last.event = run.events[2]
           /\ last.outcome = "created"
           /\ Len(last.before.failed_log) = 1
           /\ last.before.failed_log[1].error_message \in {"err503", "err429"}
    /\ result.status = "partial"

\* C9: in every reachable state no two rows of synced_events, in the open
\* connection or as committed, have the same unique_event_id or the same
\* calendar_event_id.
C9_StoreUniqueness ==
    \A D \in {db, durable} : \A x, y \in D :
        (x.unique_event_id = y.unique_event_id
         \/ x.calendar_event_id = y.calendar_event_id) => x = y

\* A link replaced the record of another event that pointed to the same entry
C9_Witness ==
    /\ Did /\ last.outcome = "linked"
    /\ \E x \in last.before.db :
          /\ x.unique_event_id /= last.event.unique_id
          /\ x.calendar_event_id = last.existing[ContentKey(last.event)]
          /\ x \notin last.after.db

\* The case of C10: the loop of a run that started from an empty calendar and
\* an empty table, with no service failure and no out-of-band change, is over
C10_Case ==
    /\ pc = "loop" /\ idx > Len(sheet_events) /\ runClean
    /\ atStart.calendar = <<>> /\ atStart.db = {}

\* C10: at the end of such a run over a sheet of two valid rows, the only
\* rows with their Event ID, the two events with the same Event ID and
\* different starts have different unique_ids, each has its record, the two
\* records point to two different live entries that carry the two starts, and
\* duplicate_tracking counts 2 for the Event ID, which duplicate_events
\* reports with occurrences 2.
C10_DuplicateSourceId ==
    C10_Case =>
        \A i, j \in 1..Len(sheet_events) :
            (/\ i < j
             /\ Len(sheet_events) = 2
             /\ sheet_events[i].sheet_id = sheet_events[j].sheet_id
             /\ sheet_events[i].start_time /= sheet_events[j].start_time
             /\ Cardinality({k \in 1..Len(values) :
                                values[k].id = sheet_events[i].sheet_id}) = 2)
            => LET a == sheet_events[i]
                   b == sheet_events[j]
               IN  /\ a.unique_id /= b.unique_id
                   /\ \E x, y \in db :
                         /\ x.unique_event_id = a.unique_id
                         /\ y.unique_event_id = b.unique_id
                         /\ x.calendar_event_id /= y.calendar_event_id
                         /\ calendar[x.calendar_event_id].status = "confirmed"
                         /\ calendar[y.calendar_event_id].status = "confirmed"
                         /\ calendar[x.calendar_event_id].start = Iso(a.start_time)
                         /\ calendar[y.calendar_event_id].start = Iso(b.start_time)
                   /\ Cardinality(db) = 2
                   /\ created = 2
                   /\ duplicate_tracking[a.sheet_id] = 2
                   /\ \E k \in 1..Len(duplicate_log) :
                         /\ duplicate_log[k].sheet_event_id = a.sheet_id
                         /\ duplicate_log[k].occurrences = 2

C10_Witness ==
    /\ C10_Case
    /\ Len(sheet_events) = 2
    /\ sheet_events[1].sheet_id = sheet_events[2].sheet_id
    /\ sheet_events[1].start_time /= sheet_events[2].start_time
    /\ Len(calendar) = 2

-----------------------------------------------------------------------------
(* The status a run returns *)

\* The latest operation that returned is a run of sync_events, and result is
\* what it returned
Returned == pc = "idle" /\ call.name = "sync_events"

-----------------------------------------------------------------------------
(* The validation gate *)

\* Data row k of the sheet the run read has an Event ID and two dates
Parsed(k) ==
    values[k].id /= "" /\ values[k].start /= NoTime /\ values[k].end /= NoTime

\* The events of the run built from data row k (sheet row k + 1)
EventsOfRow(k) ==
    {i \in 1..Len(sheet_events) : sheet_events[i].row_number = k + 1}

\* The reports of invalid rows that name data row k
ReportsOfRow(k) ==
    {i \in 1..Len(invalid_events) : invalid_events[i].row = k + 1}

\* C12: in a run, every event of the loop has a name that is not empty after
\* trimming and an end after its start, and so has the event the latest
\* iteration processed; a row that ends when it starts, or before, or whose
\* name is empty after trimming, is reported as invalid and is no event of
\* the loop; a row with an Event ID, a name and an end one second after its
\* start is an event of the loop and is not reported.
C12_ValidationGate ==
    pc = "loop" =>
        /\ \A i \in 1..Len(sheet_events) :
              /\ Strip(sheet_events[i].name) /= <<>>
              /\ sheet_events[i].end_time > sheet_events[i].start_time
              /\ EventsOfRow(sheet_events[i].row_number - 1) = {i}
        /\ Did => /\ Strip(last.event.name) /= <<>>
                  /\ last.event.end_time > last.event.start_time
                  /\ \E i \in 1..Len(sheet_events) : sheet_events[i] = last.event
        /\ \A k \in 1..Len(values) :
              /\ (Parsed(k) /\ (values[k].end <= values[k].start
                                \/ Strip(values[k].name) = <<>>))
                 => (ReportsOfRow(k) /= {} /\ EventsOfRow(k) = {})
              /\ (Parsed(k) /\ values[k].end = values[k].start + 1
                            /\ Strip(values[k].name) /= <<>>)
                 => (ReportsOfRow(k) = {} /\ EventsOfRow(k) /= {})

\* The loop ran over a sheet with a row that ends when it starts and a row
\* that ends one second later: the first is reported, the second processed
C12_Witness ==
    /\ pc = "loop" /\ Did
    /\ \E k \in 1..Len(values) :
          /\ Parsed(k) /\ values[k].end = values[k].start
          /\ ReportsOfRow(k) /= {}
    /\ \E k \in 1..Len(values) :
          /\ Parsed(k) /\ values[k].end = values[k].start + 1
          /\ last.event.row_number = k + 1

-----------------------------------------------------------------------------
(* Calls to the calendar service in one iteration *)

\* C13: for one event in one run, events().insert is called at most
\* MAX_RETRIES (3) times and not again once a call was answered, so the
\* iteration adds at most one entry; events().get and events().update are
\* each called at most once.
C13_RetriesOnlyForCreate ==
    Did =>
        /\ last.inserts <= MAX_RETRIES
        /\ (last.inserts > 0 /\ last.first_ok > 0) => last.inserts = last.first_ok
        /\ Len(last.after.calendar) <= Len(last.before.calendar) + 1
        /\ Len(last.after.calendar) > Len(last.before.calendar)
              => last.first_ok = last.inserts
        /\ last.gets <= 1
        /\ last.updates <= 1

\* The first insert of an event failed, the second was answered and no third
\* was made
C13_Witness ==
    /\ Did /\ last.outcome = "created"
    /\ last.inserts = 2 /\ last.first_ok = 2
    /\ Len(last.after.calendar) = Len(last.before.calendar) + 1

-----------------------------------------------------------------------------
(* A link to an entry that another record points to *)

\* The latest iteration linked its event to the snapshot entry that a record
\* of another unique_id pointed to
C14_Case ==
    /\ Did /\ last.outcome = "linked" /\ Matched
    /\ \E x \in last.before.db :
          /\ x.unique_event_id /= last.event.unique_id
          /\ x.calendar_event_id = last.existing[ContentKey(last.event)]

\* C14: when the link writes a record whose calendar_event_id another
\* unique_id's record holds, the row is replaced and none is added: after the
\* iteration exactly one record holds that calendar_event_id, it is the record
\* of the event linked last, and the table has no more rows than before.
C14_LinkReplacesMapping ==
    C14_Case =>
        LET id == last.existing[ContentKey(last.event)]
            holders == {y \in last.after.db : y.calendar_event_id = id}
        IN  /\ holders = {SyncRecord(last.event, id)}
            /\ Kept = holders
            /\ Cardinality(last.after.db) <= Cardinality(last.before.db)

\* The event had no record of its own: the link took the entry from the record
\* of another unique_id, which is gone, and the table keeps its size
C14_Witness ==
    /\ C14_Case /\ Stored = {}
    /\ \E y \in last.after.db :
          /\ y.unique_event_id = last.event.unique_id
          /\ y.calendar_event_id = last.existing[ContentKey(last.event)]
    /\ Cardinality(last.after.db) = Cardinality(last.before.db)

-----------------------------------------------------------------------------
(* What sync_events removes from synced_events *)

\* C15 as claimed: at no point of a run is the table without a record for a
\* unique_id that had one when the run started.
C15_AsClaimed ==
    pc = "loop" =>
        \A x \in atStart.db : \E y \in db : y.unique_event_id = x.unique_event_id

\* The latest iteration found the record of its event stale: the lookup of
\* the entry raised, or the update of the entry raised
StaleFound ==
    \/ last.lookup \in {"notfound", "failed"}
    \/ last.updates = 1 /\ last.outcome /= "updated"

\* C15: the start of a run removes no record, and an iteration of the loop
\* leaves the table without a record for a unique_id that had one in just two
\* cases: the record is the event's own, it was found stale and the iteration
\* ended in an error, so nothing was written in its place; or the record is
\* another unique_id's and the iteration linked its event to the entry that
\* record pointed to.  The end of the run leaves the table as the last
\* iteration left it.
C15_RecordRemoval ==
    /\ (pc = "loop" /\ idx = 1) => db = atStart.db
    /\ (Did /\ ~last.aborted) =>
          \A x \in last.before.db :
              LET kept == \E y \in last.after.db :
                             y.unique_event_id = x.unique_event_id
                  own == x.unique_event_id = last.event.unique_id
                  taken == /\ last.outcome = "linked"
                           /\ x.calendar_event_id = last.existing[ContentKey(last.event)]
              IN  ~kept <=> \/ own /\ StaleFound /\ last.outcome = "error"
                            \/ ~own /\ taken
    /\ (Returned /\ Did) => (call.after.db = last.after.db /\ db = last.after.db)

\* A record the table held when the run started is gone after an iteration
\* that found it stale and could not create the entry again
C15_Witness ==
    /\ pc = "loop" /\ Did /\ ~last.aborted
    /\ StaleFound /\ last.outcome = "error"
    /\ \E x \in atStart.db \cap last.before.db :
          /\ x.unique_event_id = last.event.unique_id
          /\ \A y \in db : y.unique_event_id /= x.unique_event_id

-----------------------------------------------------------------------------
(* Commits during a run *)

-----------------------------------------------------------------------------
(* Uploads during a run *)

\* C17 as claimed: in a run that has a bucket, the database is uploaded at
\* each batch boundary, so the uploaded table is the table when a create
\* brings the count to a multiple of BATCH_SIZE, and at every point of the
\* run the events whose record changes are not uploaded number at most
\* BATCH_SIZE.
C17_UploadPerBatch ==
    (pc = "loop" /\ bucket) =>
        /\ (Did /\ last.outcome = "created" /\ created % BATCH_SIZE = 0)
              => blob.db = db
        /\ unsaved <= BATCH_SIZE

-----------------------------------------------------------------------------
(* A run without valid events *)

\* Data row k of sheet is a valid event: it has an Event ID, two dates, a name
\* that is not blank and an end after its start
ValidRow(sheet, k) ==
    /\ sheet[k].id /= "" /\ sheet[k].start /= NoTime /\ sheet[k].end /= NoTime
    /\ Strip(sheet[k].name) /= <<>>
    /\ sheet[k].end > sheet[k].start

\* C18: a run of sync_events whose sheet has no valid row returns without a
\* call to the calendar: the snapshot is not listed, the loop makes no
\* iteration, hence no get, insert or update, and the calendar, the records
\* and the run history are after the run what they were before it.  A run
\* whose sheet has a valid row does list the snapshot.
C18_NoEventsNoCalls ==
    Returned =>
        IF \A k \in 1..Len(call.values) : ~ValidRow(call.values, k)
        THEN /\ ~call.listed
             /\ call.iterations = 0
             /\ ~Did
             /\ call.after = call.before
             /\ db = call.before.db
             /\ result.status \in {"error", "partial"}
        ELSE call.listed /\ call.iterations > 0

\* A run over a sheet of invalid rows returned beside a calendar with an entry
\* and a table with a record
C18_Witness ==
    /\ Returned /\ ~call.listed
    /\ call.values /= <<>>
    /\ \A k \in 1..Len(call.values) : ~ValidRow(call.values, k)
    /\ call.before.calendar /= <<>> /\ call.before.db /= {}
    /\ call.after = call.before

-----------------------------------------------------------------------------
(* Clients that fail to initialize *)

\* C19 as claimed: a run whose storage client failed to initialize issues no
\* insert and no update and writes no record, and a run whose sheets,
\* calendar or storage client failed to initialize returns status 'error'
\* and leaves the calendar and the records as they were.
C19_InitFailureAborts ==
    /\ (pc = "loop" /\ ~bucket /\ Did) =>
          /\ last.inserts = 0 /\ last.updates = 0
          /\ last.after.db = last.before.db
          /\ last.after.calendar = last.before.calendar
    /\ (Returned /\ (call.services /= "ok" \/ (~call.bucket /\ call.listed))) =>
          /\ result.status = "error"
          /\ call.after.calendar = call.before.calendar
          /\ call.after.db = call.before.db

-----------------------------------------------------------------------------
(* The run history *)

\* C20 as claimed: a run of sync_events that returned left sync_log one row
\* longer than it found it, the rows it found are unchanged, and the new row
\* carries the created, updated, skipped and error counts of the run.
C20_RunSummaryAppended ==
    Returned =>
        LET old == call.before.sync_log
            new == call.after.sync_log
        IN  /\ Len(new) = Len(old) + 1
            /\ SubSeq(new, 1, Len(old)) = old
            /\ new[Len(new)].events_created = result.created
            /\ new[Len(new)].events_updated = result.updated
            /\ new[Len(new)].events_skipped = result.skipped
            /\ new[Len(new)].errors = result.errors

-----------------------------------------------------------------------------
(* reset_sync_data without force *)

\* C21 as claimed: a reset_sync_data without force that returned left no
\* record in synced_events and left sync_log as it found it.
C21_ClearKeepsHistory ==
    (pc = "idle" /\ call.name = "reset_sync_data" /\ ~result.force) =>
        /\ call.after.db = {}
        /\ call.after.sync_log = call.before.sync_log

-----------------------------------------------------------------------------
(* A first run and the run after it *)

\* The events of run r have pairwise different unique_ids
DistinctIds(r) ==
    \A i, j \in 1..Len(r.events) :
        r.events[i].unique_id = r.events[j].unique_id => i = j

\* Run r started from an empty calendar and an empty table and met no service
\* failure and no out-of-band change
FromEmpty(r) == r.fresh /\ r.clean

\* C22: a run over n events with pairwise different unique_ids that started
\* from an empty calendar and an empty table, with a healthy service, reports
\* created = n, updated = 0, skipped = 0, errors = 0; and the run that follows
\* it at once with the same events reports created = 0, updated = 0,
\* skipped = n, errors = 0.
C22_FirstRunThenRepeat ==
    /\ \A k \in 1..Len(runs) :
          (FromEmpty(runs[k]) /\ DistinctIds(runs[k])) =>
              /\ runs[k].created = Len(runs[k].events)
              /\ runs[k].updated = 0 /\ runs[k].skipped = 0 /\ runs[k].errors = 0
    /\ (/\ Len(runs) = 2
        /\ FromEmpty(runs[1]) /\ DistinctIds(runs[1])
        /\ runs[2].events = runs[1].events
        /\ runs[2].clean /\ runs[2].follows) =>
              /\ runs[2].created = 0 /\ runs[2].updated = 0
              /\ runs[2].skipped = Len(runs[2].events)
              /\ runs[2].errors = 0

\* A run over two events created both from nothing, and the run that followed
\* with the same two events skipped both
C22_Witness ==
    /\ Len(runs) = 2
    /\ FromEmpty(runs[1]) /\ DistinctIds(runs[1])
    /\ Len(runs[1].events) = 2 /\ runs[1].created = 2
    /\ runs[2].events = runs[1].events
    /\ runs[2].clean /\ runs[2].follows
    /\ runs[2].skipped = 2

-----------------------------------------------------------------------------
(* Overlapping runs *)

\* Both instances inserted a calendar entry for unique_id uid
DoubleInsert(uid) ==
    /\ \E a \in overlap.run[1].inserted : a[1] = uid
    /\ \E b \in overlap.run[2].inserted : b[1] = uid

\* C23: when the second instance starts only after the first has ended and
\* uploaded, no unique_id gets an entry inserted by both instances, and once
\* both have ended the uploaded table has a record that points to each entry
\* either of them inserted.
C23_SequentialIsSafe ==
    ~overlap.overlapped =>
        /\ \A i \in Instances : \A a \in overlap.run[i].inserted :
              ~DoubleInsert(a[1])
        /\ (\A i \in Instances : overlap.run[i].pc = "done") =>
              \A i \in Instances : \A a \in overlap.run[i].inserted :
                  \E x \in blob.db : x.calendar_event_id = a[2]

\* Two instances ran at a time over the same sheet: both inserted an entry
\* for the same unique_id, and the table uploaded last has one record for it,
\* which points to one of the two entries while no record points to the other
C23_Witness ==
    /\ overlap.overlapped
    /\ \A i \in Instances : overlap.run[i].pc = "done"
    /\ \E a \in overlap.run[1].inserted, b \in overlap.run[2].inserted :
          /\ a[1] = b[1] /\ a[2] /= b[2]
          /\ calendar[a[2]].status = "confirmed"
          /\ calendar[b[2]].status = "confirmed"
          /\ Cardinality({x \in blob.db : x.unique_event_id = a[1]}) = 1
          /\ Cardinality({x \in blob.db : x.calendar_event_id \in {a[2], b[2]}}) = 1

-----------------------------------------------------------------------------
(* Update in place *)

\* The event has a record with another hash, get returned its entry live and
\* the update call was answered
C24_Case ==
    /\ Did /\ last.lookup = "live" /\ last.updates = 1 /\ ~last.fault
    /\ \E x \in Stored : x.event_hash /= ContentHash(last.event)

\* C24: in that case the record of the event keeps its unique_event_id, its
\* sheet_event_id and its calendar_event_id and holds the event's hash, name,
\* start and end; every other record is as it was, so the table has as many
\* records as before; the calendar has as many entries as before and no
\* insert was called.
C24_UpdateInPlace ==
    C24_Case =>
        /\ Cardinality(Stored) = 1 /\ Cardinality(Kept) = 1
        /\ \A x \in Stored : \A y \in Kept :
              /\ y.unique_event_id = x.unique_event_id
              /\ y.sheet_event_id = x.sheet_event_id
              /\ y.calendar_event_id = x.calendar_event_id
              /\ y.event_hash = ContentHash(last.event)
              /\ y.event_name = last.event.name
              /\ y.start_time = Iso(last.event.start_time)
              /\ y.end_time = Iso(last.event.end_time)
        /\ last.after.db \ Kept = last.before.db \ Stored
        /\ Cardinality(last.after.db) = Cardinality(last.before.db)
        /\ last.inserts = 0
        /\ Len(last.after.calendar) = Len(last.before.calendar)

\* An update in place of a record whose name changed, beside another record
C24_Witness ==
    /\ C24_Case
    /\ \E x \in Stored : x.event_name /= last.event.name
    /\ \E y \in Kept : y.event_name = last.event.name
    /\ Cardinality(last.after.db) > 1

-----------------------------------------------------------------------------
(* Cancelled entries and the snapshot *)

\* C25: during a run, no key of the snapshot maps to an entry that was
\* cancelled when the run listed the calendar, and when an iteration links
\* its event, the record it writes points to an entry that was not cancelled
\* then.
C25_SnapshotSkipsCancelled ==
    pc = "loop" =>
        /\ \A k \in DOMAIN existing :
              /\ existing[k] \in 1..Len(atStart.calendar)
              /\ atStart.calendar[existing[k]].status = "confirmed"
        /\ (Did /\ last.outcome = "linked") =>
              \A y \in Kept :
                  /\ y.calendar_event_id \in 1..Len(atStart.calendar)
                  /\ atStart.calendar[y.calendar_event_id].status = "confirmed"

\* The calendar listed for the run held a cancelled entry under the content
\* key of an event: the snapshot has no such key and the event was not linked
C25_Witness ==
    /\ pc = "loop" /\ Did
    /\ \E id \in 1..Len(atStart.calendar) :
          /\ atStart.calendar[id].status = "cancelled"
          /\ EntryKey(atStart.calendar[id]) = ContentKey(last.event)
    /\ ContentKey(last.event) \notin DOMAIN existing
    /\ last.outcome /= "linked"

-----------------------------------------------------------------------------
(* Termination of a run *)

\* The run returned a result that accounts for every event of its sheet
ReturnedAll ==
    /\ Returned /\ call.listed
    /\ result.status \in {"success", "partial"}
    /\ result.total_processed = call.iterations
    /\ result.created + result.updated + result.skipped + result.errors
          = result.total_processed

\* C26: while a run is in its loop the iterations made are never more than
\* the events of the sheet and no iteration calls insert more than MAX_RETRIES
\* times, and whatever the service answers to get, update and insert, the run
\* eventually returns a result in which every event of the sheet is counted.
C26_RunReturns ==
    /\ [](pc = "loop" => (/\ idx <= Len(sheet_events) + 1
                          /\ created + updated + skipped + errors = idx - 1
                          /\ last.inserts <= MAX_RETRIES))
    /\ (pc = "loop") ~> ReturnedAll

\* A run returned after an iteration whose insert calls all failed
C26_Witness ==
    /\ ReturnedAll /\ Did
    /\ last.inserts = MAX_RETRIES /\ last.first_ok = 0
    /\ result.errors > 0

-----------------------------------------------------------------------------
(* The four counters of a run *)

\* C27: every iteration of the loop adds one to exactly one of created,
\* updated, skipped and errors, and a run with at least one valid event
\* returns counters whose sum is total_processed, the number of its events.
C27_CountersPartition ==
    /\ Did =>
          \/ Counted(1, 0, 0, 0)
          \/ Counted(0, 1, 0, 0)
          \/ Counted(0, 0, 1, 0)
          \/ Counted(0, 0, 0, 1)
    /\ (Returned /\ call.iterations >= 1) =>
          /\ result.total_processed = call.iterations
          /\ result.created + result.updated + result.skipped + result.errors
                = result.total_processed

\* A run over two events returned with one event created and one failed
C27_Witness ==
    /\ Returned /\ call.iterations = 2
    /\ result.created = 1 /\ result.errors = 1
    /\ Did /\ last.outcome = "error" /\ last.inserts = MAX_RETRIES

-----------------------------------------------------------------------------
(* Inserts for an event whose entry is live *)

\* The event's record pointed to a live entry when the iteration began
LiveBefore ==
    \E x \in Stored :
        /\ x.calendar_event_id \in 1..Len(last.before.calendar)
        /\ last.before.calendar[x.calendar_event_id].status = "confirmed"

\* C28: an iteration for an event whose record points to a calendar entry
\* that is present and not cancelled makes no insert call, also when the get
\* or the update call for that entry fails.
C28_NoInsertWhileLive ==
    (Did /\ LiveBefore) => last.inserts = 0

-----------------------------------------------------------------------------
(* Records after a run without errors *)

\* The run that returned last
LastRun == runs[Len(runs)]

\* C29: after a run that reports zero errors, the table holds a record for
\* the unique_id of every event of the run, also when several events have
\* one content key and are linked to the same calendar entry.
C29_ZeroErrorsAllRecorded ==
    (Returned /\ call.listed /\ result.errors = 0) =>
        \A i \in 1..Len(LastRun.events) :
            Lookup(call.after.db, LastRun.events[i].unique_id) /= {}

-----------------------------------------------------------------------------
(* What a record says of its entry *)

\* The content hash of the name, start and end a calendar entry has
EntryHash(entry) == <<Lower(Strip(entry.summary)), entry.start, entry.end>>

\* The record belongs to an event of the run that returned last
OfLastRun(x) ==
    \E i \in 1..Len(LastRun.events) : LastRun.events[i].unique_id = x.unique_event_id

\* C30: after a run during which nothing but the run changed the calendar
\* (here a run that in addition met no failure of the service), every record
\* of an event of the run whose calendar entry is present and not cancelled
\* has the content hash of the name, start and end that entry has.
C30_RecordMatchesEntry ==
    (Returned /\ call.listed /\ LastRun.clean) =>
        \A x \in call.after.db :
            (/\ OfLastRun(x)
             /\ x.calendar_event_id \in 1..Len(call.after.calendar)
             /\ call.after.calendar[x.calendar_event_id].status = "confirmed") =>
                EntryHash(call.after.calendar[x.calendar_event_id]) = x.event_hash

-----------------------------------------------------------------------------
(* A run whose listing call failed *)

\* The calendar the iteration met held a live entry with the content key of
\* the event
EntryExisted ==
    \E id \in 1..Len(last.before.calendar) :
        /\ last.before.calendar[id].status = "confirmed"
        /\ EntryKey(last.before.calendar[id]) = ContentKey(last.event)

\* C31: when the listing call of a run fails, the run enters its loop with an
\* empty snapshot and no error counted, and every iteration that does not end
\* with its record kept (skipped as unchanged, or updated) calls insert, never
\* links, whether or not the calendar holds an entry with the event's content.
C31_ListFailureMeansCreate ==
    (pc = "loop" /\ ~atStart.list_ok) =>
        /\ existing = EmptySnapshot
        /\ idx = 1 => (errors = 0 /\ failed_events = <<>>)
        /\ Did =>
              /\ ~last.in_snapshot /\ last.outcome /= "linked"
              /\ last.outcome \notin {"skipped", "updated"} => last.inserts >= 1
              /\ last.lookup /= "live" => last.inserts >= 1

\* After a failed listing an event without record was created although the
\* calendar held a live entry with its content key
C31_Witness ==
    /\ pc = "loop" /\ ~atStart.list_ok /\ Did
    /\ Stored = {} /\ EntryExisted
    /\ last.outcome = "created" /\ last.inserts = 1
    /\ Len(last.after.calendar) = Len(last.before.calendar) + 1

-----------------------------------------------------------------------------
(* sync_events and the entries of the calendar *)

\* Entry id is present and not cancelled in calendar cal
Live(cal, id) == id \in 1..Len(cal) /\ cal[id].status = "confirmed"

\* C32: an iteration of sync_events removes and cancels no calendar entry: the
\* calendar after it holds every entry it held before, unchanged except for
\* the one entry an update rewrote in place, and at most one entry more; so
\* after a run that nothing disturbed every entry that was live when the run
\* began is live, whatever the sheet; and every row of sync_log has
\* events_deleted = 0.
C32_NoDeleteInSync ==
    /\ Did =>
          /\ Len(last.after.calendar) \in
                {Len(last.before.calendar), Len(last.before.calendar) + 1}
          /\ \A id \in 1..Len(last.before.calendar) :
                /\ last.after.calendar[id].status = last.before.calendar[id].status
                /\ \/ last.after.calendar[id] = last.before.calendar[id]
                   \/ /\ last.outcome = "updated"
                      /\ \E x \in Stored : x.calendar_event_id = id
    /\ (Returned /\ call.listed /\ LastRun.clean) =>
          \A id \in 1..Len(call.before.calendar) :
              Live(call.before.calendar, id) => Live(call.after.calendar, id)
    /\ \A k \in 1..Len(sync_log) : sync_log[k].events_deleted = 0

\* A run over a sheet in which the start of the one recorded row was changed
\* created the new entry and left the old entry live
C32_Witness ==
    /\ Returned /\ call.listed /\ LastRun.clean
    /\ result.created = 1
    /\ \E x \in call.before.db :
          /\ ~ \E i \in 1..Len(LastRun.events) :
                  LastRun.events[i].unique_id = x.unique_event_id
          /\ \E i \in 1..Len(LastRun.events) :
                  LastRun.events[i].sheet_id = x.sheet_event_id
          /\ Live(call.before.calendar, x.calendar_event_id)
          /\ Live(call.after.calendar, x.calendar_event_id)
    /\ Len(call.after.calendar) = Len(call.before.calendar) + 1
    /\ sync_log[Len(sync_log)].events_deleted = 0

-----------------------------------------------------------------------------
(* delete_events_in_range and the records *)

\* delete_events_in_range returned a count
DeleteReturned ==
    /\ call.name = "delete_events_in_range"
    /\ result.status = "success" /\ "deleted_count" \in DOMAIN result

\* The entries the call listed and did not skip as cancelled
Targets ==
    {id \in Listed(call.before.calendar, result.date_range.from, result.date_range.to) :
        call.before.calendar[id].status /= "cancelled"}

\* C33: when delete_events_in_range returns, every record it removed pointed
\* to an entry whose delete call succeeded; the record of an entry whose
\* delete call failed is kept and the entry is as it was; deleted_count is
\* the number of entries whose delete call succeeded; and every listed entry
\* whose delete call did not fail is deleted and has no record, also when the
\* call for an entry listed before it failed.
C33_RecordFollowsDelete ==
    DeleteReturned =>
        /\ call.failing \subseteq Targets
        /\ \A x \in call.before.db \ call.after.db :
              /\ x.calendar_event_id \in Targets \ call.failing
              /\ call.after.calendar[x.calendar_event_id].status = "cancelled"
        /\ \A x \in call.before.db :
              x.calendar_event_id \in call.failing =>
                  /\ x \in call.after.db
                  /\ call.after.calendar[x.calendar_event_id]
                        = call.before.calendar[x.calendar_event_id]
        /\ result.deleted_count = Cardinality(Targets \ call.failing)
        /\ \A id \in Targets \ call.failing :
              /\ call.after.calendar[id].status = "cancelled"
              /\ ~ \E x \in call.after.db : x.calendar_event_id = id

\* The delete call failed for an entry with a record, which was kept, and an
\* entry listed after it was deleted and counted
C33_Witness ==
    /\ DeleteReturned
    /\ \E f \in call.failing :
          /\ \E x \in call.before.db \cap call.after.db : x.calendar_event_id = f
          /\ \E id \in Targets \ call.failing :
                /\ id > f
                /\ \E x \in call.before.db \ call.after.db : x.calendar_event_id = id
    /\ result.deleted_count = 1

=============================================================================
